---------------------------- MODULE Spec2Model ----------------------------
(***************************************************************************)
(* Model of the chat-session store (src/services/database.py) and of the   *)
(* HTTP handlers that drive it (src/api/chats.py, src/api/documents.py).   *)
(*                                                                         *)
(* Python strings are TLA+ strings; slices are SubSeq, concatenation is    *)
(* \o.  A Python dict is a sequence of <<key, value>> entries in insertion *)
(* order, which is the order Python iterates it in.                        *)
(***************************************************************************)
EXTENDS Integers, Sequences, FiniteSets, TLC

VARIABLES
    chat_sessions,      \* db.chat_sessions : Dict[str, List[ChatMessage]]
    documents,          \* db.documents     : Dict[str, DocumentInfo]
    clock,              \* the wall clock datetime.utcnow() reads
    request,            \* the last call: endpoint or store method, and its arguments
    response,           \* what that call answered: HTTP status and body, or return value
    history_for_model,  \* chat(): the local of that name in the last call, once
                        \* assigned (<<>> before, and in a call of another handler)
    generation,         \* chat(): what the inner try block did in the last call:
                        \* the arguments qa_chain.invoke got, once called, and
                        \* whether and with which text an exception left the block
    turns               \* history: per live session, the chat exchanges served since
                        \* the session was last created

vars == <<chat_sessions, documents, clock, request, response,
          history_for_model, generation, turns>>

---------------------------------------------------------------------------
(* Bounds of the model.                                                    *)

\* Messages the store may hold in total when a request that appends arrives.
MaxStoreMessages == 4
\* Length a session may have when a request arrives, in the deep-history runs.
MaxDeepHistory == 12
\* Seconds of the sampled minute the clock may reach.
MaxSecond == 1

---------------------------------------------------------------------------
(* Python values and string primitives.                                    *)

None == "<None>"

Min(a, b) == IF a <= b THEN a ELSE b
Max(a, b) == IF a >= b THEN a ELSE b

CharAt(s, i) == SubSeq(s, i, i)

\* s[:n]
Prefix(s, n) == SubSeq(s, 1, Min(n, Len(s)))

\* s[-n:]
LastN(s, n) == SubSeq(s, Max(1, Len(s) - n + 1), Len(s))

Whitespace == {" ", "\t", "\n", "\r"}

RECURSIVE LStrip(_)
LStrip(s) ==
    IF Len(s) > 0 /\ CharAt(s, 1) \in Whitespace THEN LStrip(Tail(s)) ELSE s

RECURSIVE RStrip(_)
RStrip(s) ==
    IF Len(s) > 0 /\ CharAt(s, Len(s)) \in Whitespace
    THEN RStrip(SubSeq(s, 1, Len(s) - 1))
    ELSE s

\* str.strip()
Strip(s) == RStrip(LStrip(s))

\* needle in hay
Contains(hay, needle) ==
    \E i \in 1..(Len(hay) - Len(needle) + 1) :
        SubSeq(hay, i, i + Len(needle) - 1) = needle

\* Code points of the characters a timestamp is made of.
Ord(c) ==
    CASE c = "-" -> 45 [] c = "." -> 46
      [] c = "0" -> 48 [] c = "1" -> 49 [] c = "2" -> 50 [] c = "3" -> 51
      [] c = "4" -> 52 [] c = "5" -> 53 [] c = "6" -> 54 [] c = "7" -> 55
      [] c = "8" -> 56 [] c = "9" -> 57
      [] c = ":" -> 58 [] c = "T" -> 84 [] c = "Z" -> 90

\* a < b on str: lexicographic by code point, a proper prefix first.
RECURSIVE StrLess(_, _)
StrLess(a, b) ==
    IF Len(b) = 0 THEN FALSE
    ELSE IF Len(a) = 0 THEN TRUE
    ELSE IF CharAt(a, 1) = CharAt(b, 1) THEN StrLess(Tail(a), Tail(b))
    ELSE Ord(CharAt(a, 1)) < Ord(CharAt(b, 1))

Digit(d) == CharAt("0123456789", d + 1)

\* "%0<width>d" % n
RECURSIVE ZeroPad(_, _)
ZeroPad(n, width) ==
    IF width = 0 THEN "" ELSE ZeroPad(n \div 10, width - 1) \o Digit(n % 10)

---------------------------------------------------------------------------
(* Python dict, insertion-ordered.                                         *)

DictKeys(d) == [i \in 1..Len(d) |-> d[i][1]]
DictValues(d) == [i \in 1..Len(d) |-> d[i][2]]
KeySet(d) == {d[i][1] : i \in 1..Len(d)}

\* k in d
DictHas(d, k) == k \in KeySet(d)

IndexOf(d, k) == CHOOSE i \in 1..Len(d) : d[i][1] = k

\* d.get(k, default)
DictGet(d, k, default) == IF DictHas(d, k) THEN d[IndexOf(d, k)][2] ELSE default

\* d[k] = v : an existing key keeps its place, a new key goes last
DictSet(d, k, v) ==
    IF DictHas(d, k)
    THEN [d EXCEPT ![IndexOf(d, k)] = <<k, v>>]
    ELSE Append(d, <<k, v>>)

\* del d[k]
DictDel(d, k) ==
    LET i == IndexOf(d, k)
    IN  SubSeq(d, 1, i - 1) \o SubSeq(d, i + 1, Len(d))

---------------------------------------------------------------------------
(* datetime.utcnow().isoformat() + "Z".                                    *)
(* An instant is <<second, microsecond>> within one sampled minute.        *)

DatePrefix == "2026-11-03T07:15:"

MicroSamples == {0, 500000}

Instants == (0..MaxSecond) \X MicroSamples

InstantLess(a, b) == a[1] < b[1] \/ (a[1] = b[1] /\ a[2] < b[2])

\* datetime.isoformat(): the fraction is printed only when microsecond is not 0
isoformat(t) ==
    DatePrefix \o ZeroPad(t[1], 2) \o
    (IF t[2] = 0 THEN "" ELSE "." \o ZeroPad(t[2], 6))

current_timestamp(t) == isoformat(t) \o "Z"

---------------------------------------------------------------------------
(* uuid.uuid4().hex: 32 hexadecimal characters.  The sampled draws include *)
(* two that agree on their first 8 characters.                             *)

Uuid4Hex ==
    { "3f2a9c1e4b5d4e6f8a7b0c1d2e3f4a5b",
      "3f2a9c1e9d8c4b7a8f6e5d4c3b2a1f0e",
      "b81d04e72c6a4f3e9b5d7a1c8e0f2d4b" }

\* uuid.uuid4().hex[:8]
Hex8(u) == Prefix(u, 8)

Hex8Draws == {Hex8(u) : u \in Uuid4Hex}

---------------------------------------------------------------------------
(* src/models.py                                                           *)

\* a message that keeps the timestamp only when its role is user
ChatMessage_user_stamped(id, role, content, timestamp) ==
    [id |-> id, role |-> role, content |-> content,
     timestamp |-> IF role = "user" THEN timestamp ELSE ""]

ChatMessage(id, role, content, timestamp) ==
    [id |-> id, role |-> role, content |-> content, timestamp |-> timestamp]

DocumentInfo(id, name, type) == [id |-> id, name |-> name, type |-> type]

SourceDocument(docId, docName) ==
    [docId |-> docId, docName |-> docName, relevantSection |-> None]

---------------------------------------------------------------------------
(* src/services/database.py : InMemoryDatabase.                            *)
(* A method is an operator from the store to the store after the call      *)
(* (sessions) and the value returned (ret).                                *)

\* creation that assigns the empty list whether or not the id is known
create_chat_session_resets(sessions, chat_id) ==
    [sessions |-> DictSet(sessions, chat_id, <<>>), ret |-> ~DictHas(sessions, chat_id)]

create_chat_session(sessions, chat_id) ==
    IF ~DictHas(sessions, chat_id)
    THEN [sessions |-> DictSet(sessions, chat_id, <<>>), ret |-> TRUE]
    ELSE [sessions |-> sessions, ret |-> FALSE]

\* no implicit creation: a message for an unknown session is refused
add_message_requires_session(sessions, chat_id, message) ==
    IF DictHas(sessions, chat_id)
    THEN [sessions |-> DictSet(sessions, chat_id,
                               Append(DictGet(sessions, chat_id, <<>>), message)),
          ret |-> TRUE]
    ELSE [sessions |-> sessions, ret |-> FALSE]

\* one list shared by the sessions: the message shows in each of them
add_message_all_sessions(sessions, chat_id, message) ==
    LET ensured == IF ~DictHas(sessions, chat_id)
                   THEN Append(sessions, <<chat_id, <<>>>>)
                   ELSE sessions
    IN  [sessions |-> [i \in 1..Len(ensured) |->
                          <<ensured[i][1], Append(ensured[i][2], message)>>],
         ret |-> TRUE]

\* the message put in front of the list instead of behind it
add_message_front(sessions, chat_id, message) ==
    [sessions |-> DictSet(sessions, chat_id,
                          <<message>> \o DictGet(sessions, chat_id, <<>>)),
     ret |-> TRUE]

\* the list replaced by the message instead of extended by it
add_message_overwrites(sessions, chat_id, message) ==
    [sessions |-> DictSet(sessions, chat_id, <<message>>), ret |-> TRUE]

add_message(sessions, chat_id, message) ==
    LET ensured == IF ~DictHas(sessions, chat_id)
                   THEN create_chat_session(sessions, chat_id).sessions
                   ELSE sessions
        appended == Append(DictGet(ensured, chat_id, <<>>), message)
    IN  [sessions |-> DictSet(ensured, chat_id, appended), ret |-> TRUE]

\* a read that enters the id it misses, as setdefault(chat_id, []) would
get_chat_history_creates(sessions, chat_id) ==
    IF DictHas(sessions, chat_id)
    THEN [sessions |-> sessions, ret |-> DictGet(sessions, chat_id, <<>>)]
    ELSE [sessions |-> DictSet(sessions, chat_id, <<>>), ret |-> <<>>]

get_chat_history(sessions, chat_id) ==
    [sessions |-> sessions, ret |-> DictGet(sessions, chat_id, <<>>)]

\* deletion that takes the last message of the session and keeps the rest
delete_chat_session_last_message(sessions, chat_id) ==
    IF DictHas(sessions, chat_id)
    THEN LET messages == DictGet(sessions, chat_id, <<>>)
         IN  [sessions |-> DictSet(sessions, chat_id,
                                   SubSeq(messages, 1, Len(messages) - 1)),
              ret |-> TRUE]
    ELSE [sessions |-> sessions, ret |-> FALSE]

\* deletion that empties the session and keeps its key
delete_chat_session_clears(sessions, chat_id) ==
    IF DictHas(sessions, chat_id)
    THEN [sessions |-> DictSet(sessions, chat_id, <<>>), ret |-> TRUE]
    ELSE [sessions |-> sessions, ret |-> FALSE]

delete_chat_session(sessions, chat_id) ==
    IF DictHas(sessions, chat_id)
    THEN [sessions |-> DictDel(sessions, chat_id), ret |-> TRUE]
    ELSE [sessions |-> sessions, ret |-> FALSE]

chat_session_exists(sessions, chat_id) ==
    [sessions |-> sessions, ret |-> DictHas(sessions, chat_id)]

get_documents(docs, chat_id) == DictValues(docs)

PREVIEW_LEN == 100

\* the preview loop: the first message of role user, cut to 100 characters
RECURSIVE first_user_message(_)
first_user_message(messages) ==
    IF messages = <<>> THEN None
    ELSE IF Head(messages).role = "user"
    THEN IF Len(Head(messages).content) > PREVIEW_LEN
         THEN Prefix(Head(messages).content, PREVIEW_LEN) \o "..."
         ELSE Head(messages).content
    ELSE first_user_message(Tail(messages))

session_info(chat_id, messages) ==
    [chatId |-> chat_id,
     messageCount |-> Len(messages),
     lastActivity |-> messages[Len(messages)].timestamp,
     firstMessage |-> first_user_message(messages)]

\* the loop over chat_sessions.items(): sessions without messages are skipped
RECURSIVE collect_sessions(_)
collect_sessions(entries) ==
    IF entries = <<>> THEN <<>>
    ELSE LET rest == collect_sessions(Tail(entries))
         IN  IF Head(entries)[2] = <<>>
             THEN rest
             ELSE <<session_info(Head(entries)[1], Head(entries)[2])>> \o rest

\* The place of x in a list already sorted in descending key order: after every
\* entry whose key is not smaller (list.sort is stable, also with reverse=True).
RECURSIVE insert_desc(_, _)
insert_desc(sorted, x) ==
    IF sorted = <<>> THEN <<x>>
    ELSE IF StrLess(Head(sorted).lastActivity, x.lastActivity)
    THEN <<x>> \o sorted
    ELSE <<Head(sorted)>> \o insert_desc(Tail(sorted), x)

\* sessions.sort(key=lambda x: x["lastActivity"], reverse=True)
RECURSIVE sort_by_last_activity(_)
sort_by_last_activity(sessions) ==
    IF sessions = <<>> THEN <<>>
    ELSE insert_desc(sort_by_last_activity(SubSeq(sessions, 1, Len(sessions) - 1)),
                     sessions[Len(sessions)])

get_chat_sessions_with_metadata(sessions) ==
    sort_by_last_activity(collect_sessions(sessions))

---------------------------------------------------------------------------
(* InMemoryDatabase._initialize_documents: the registry built at start-up  *)
(* from the listing of settings.data_directory.                            *)

UpperCase == "ABCDEFGHIJKLMNOPQRSTUVWXYZ"
LowerCase == "abcdefghijklmnopqrstuvwxyz"

\* the character of `into` at the place c has in `from`; c itself if it has none
MapChar(c, from, into) ==
    IF \E i \in 1..Len(from) : CharAt(from, i) = c
    THEN CharAt(into, CHOOSE i \in 1..Len(from) : CharAt(from, i) = c)
    ELSE c

RECURSIVE MapString(_, _, _)
MapString(s, from, into) ==
    IF Len(s) = 0 THEN ""
    ELSE MapChar(CharAt(s, 1), from, into) \o MapString(Tail(s), from, into)

\* str.lower(), str.upper()
Lower(s) == MapString(s, UpperCase, LowerCase)
Upper(s) == MapString(s, LowerCase, UpperCase)

\* str.replace(".", "")
RECURSIVE RemoveDots(_)
RemoveDots(s) ==
    IF Len(s) = 0 THEN ""
    ELSE (IF CharAt(s, 1) = "." THEN "" ELSE CharAt(s, 1)) \o RemoveDots(Tail(s))

\* pathlib's Path.suffix: from the last dot of the name on, unless that dot is
\* the first or the last character
PathSuffix(name) ==
    LET dots == {i \in 1..Len(name) : CharAt(name, i) = "."}
        last == CHOOSE i \in dots : \A j \in dots : j <= i
    IN  IF dots = {} \/ last = 1 \/ last = Len(name)
        THEN ""
        ELSE SubSeq(name, last, Len(name))

\* settings.allowed_file_types_list for the default ".pdf,.docx,.txt"
allowed_file_types_list == <<".pdf", ".docx", ".txt">>

InList(x, list) == \E i \in 1..Len(list) : list[i] = x

\* The loop over data_path.iterdir(): entries are the directory's entries in
\* iteration order, draws the successive values of uuid.uuid4().hex.
RECURSIVE register_documents(_, _, _)
register_documents(entries, draws, docs) ==
    IF entries = <<>> THEN docs
    ELSE LET file_path == Head(entries)
         IN  IF file_path.is_file
                /\ InList(Lower(PathSuffix(file_path.name)), allowed_file_types_list)
             THEN LET doc_id == "doc-" \o Hex8(Head(draws))
                      doc_type == RemoveDots(Upper(PathSuffix(file_path.name)))
                      document == DocumentInfo(doc_id, file_path.name, doc_type)
                  IN  register_documents(Tail(entries), Tail(draws),
                                         DictSet(docs, doc_id, document))
             ELSE register_documents(Tail(entries), draws, docs)

_initialize_documents(data_path, draws) ==
    IF ~data_path.exists THEN <<>>
    ELSE register_documents(data_path.entries, draws, <<>>)

\* Sampled states of the data directory at start-up.
DataDirectories ==
    { [exists |-> FALSE, entries |-> <<>>],
      [exists |-> TRUE,
       entries |-> << [name |-> "guide.pdf",   is_file |-> TRUE],
                      [name |-> "notes.md",    is_file |-> TRUE],
                      [name |-> "FAQ.TXT",     is_file |-> TRUE],
                      [name |-> "archive",     is_file |-> FALSE],
                      [name |-> "policy.docx", is_file |-> TRUE],
                      [name |-> "terms.pdf",   is_file |-> TRUE] >>] }

\* Sampled runs of uuid4 during start-up: all identifiers distinct, and two
\* draws that agree on their first 8 characters.
DistinctDraws ==
    << "0c4e8a2637b14f5d9e6a1b2c3d4e5f60", "5a6b7c8d9e0f4a1b8c2d3e4f5a6b7c8d",
       "9f8e7d6c5b4a4392a1b0c9d8e7f6a5b4", "d2c3b4a5f6e74d8c9b0a1f2e3d4c5b6a" >>
CollidingDraws ==
    << "0c4e8a2637b14f5d9e6a1b2c3d4e5f60", "0c4e8a26aa11bb22cc33dd44ee55ff66",
       "9f8e7d6c5b4a4392a1b0c9d8e7f6a5b4", "d2c3b4a5f6e74d8c9b0a1f2e3d4c5b6a" >>
StartupDraws == {DistinctDraws, CollidingDraws}

---------------------------------------------------------------------------
(* src/api/chats.py : chat.                                                *)

HISTORY_WINDOW == 10
SOURCES_LIMIT == 3

NUMPY_REPLY ==
    "I'm experiencing a technical issue with the numerical computing library. Please ensure NumPy is properly installed."
GPU_REPLY ==
    "I'm having GPU-related issues. The system will try to use CPU instead."
APOLOGY_REPLY ==
    "I apologize, but I'm having trouble processing your request right now. Please try again later."

CannedReplies == {NUMPY_REPLY, GPU_REPLY, APOLOGY_REPLY}

\* the check without strip(): only "" is empty
message_is_empty_unstripped(req) == req.message = ""

\* not request.message.strip()
message_is_empty(req) == Strip(req.message) = ""

\* no try block was entered
NoGeneration == [invoked |-> <<>>, raised |-> FALSE, error |-> ""]

\* the test without its third part: the placeholder "string" counts as an id
not_provided_but_placeholder(x) == x = None \/ Strip(x) = ""

\* not x or not x.strip() or x == "string"
not_provided(x) == x = None \/ Strip(x) = "" \/ x = "string"

\* [{"role": msg.role, "content": msg.content} for msg in conversation_history[-10:]]
bounded_history(conversation_history) ==
    LET window == LastN(conversation_history, HISTORY_WINDOW)
    IN  [i \in 1..Len(window) |->
            [role |-> window[i].role, content |-> window[i].content]]

\* What the inner try block ends with.  np_ok: whether `import numpy` succeeds;
\* outcome: what qa_chain.invoke does.  raised: whether an exception reached the
\* handler, error: its str(), answer: ai_response when none did.
generate(query, np_ok, outcome) ==
    IF ~np_ok
    THEN [invoked |-> <<>>, raised |-> TRUE,
          error |-> "NumPy is not properly installed", answer |-> ""]
    ELSE IF outcome.kind = "raise"
    THEN [invoked |-> <<[query |-> query]>>, raised |-> TRUE,
          error |-> outcome.value, answer |-> ""]
    ELSE \* a dict holding "result", or any other value through str()
         [invoked |-> <<[query |-> query]>>, raised |-> FALSE,
          error |-> "", answer |-> outcome.value]

\* the exception's text handed to the caller in place of a canned reply
canned_reply_leaks(error) == "Error: " \o error

\* the except branch: the reply chosen from str(model_error)
canned_reply(error) ==
    IF Contains(error, "Numpy is not available") THEN NUMPY_REPLY
    ELSE IF Contains(error, "CUDA") \/ Contains(error, "GPU") THEN GPU_REPLY
    ELSE APOLOGY_REPLY

\* every document named as a source, without the limit
sources_of_all(docs) ==
    IF docs = <<>>
    THEN [none |-> TRUE, list |-> <<>>]
    ELSE [none |-> FALSE,
          list |-> [i \in 1..Len(docs) |-> SourceDocument(docs[i].id, docs[i].name)]]

\* [SourceDocument(...) for doc in documents[:3]] if documents else None
sources_of(docs) ==
    IF docs = <<>>
    THEN [none |-> TRUE, list |-> <<>>]
    ELSE [none |-> FALSE,
          list |-> [i \in 1..Min(SOURCES_LIMIT, Len(docs)) |->
                       SourceDocument(docs[i].id, docs[i].name)]]

\* The handler, from the store and the clock at the request to the store after
\* it and the answer.  The *_hex arguments are the successive values of
\* uuid.uuid4().hex[:8]; a value the request does not draw is ignored.
chat(sessions, docs, now, req, np_ok, outcome, chat_hex, user_hex, user_msg_hex, assistant_msg_hex) ==
    IF message_is_empty(req)
    THEN [sessions |-> sessions, status |-> 400,
          body |-> [detail |-> "Message cannot be empty"],
          chat_id |-> None, history_for_model |-> <<>>, generation |-> NoGeneration]
    ELSE
    LET chat_id == IF not_provided(req.chatId) THEN "chat-" \o chat_hex
                   ELSE req.chatId
        user_id == IF not_provided(req.userId) THEN "user-" \o user_hex
                   ELSE req.userId
        ensured == IF ~chat_session_exists(sessions, chat_id).ret
                   THEN create_chat_session(sessions, chat_id).sessions
                   ELSE sessions
        conversation_history == get_chat_history(ensured, chat_id).ret
        generated == generate(req.message, np_ok, outcome)
        ai_response == IF generated.raised THEN canned_reply(generated.error)
                       ELSE generated.answer
        user_message_id == "msg-" \o user_msg_hex
        assistant_message_id == "msg-" \o assistant_msg_hex
        timestamp == current_timestamp(now)
        user_message == ChatMessage(user_message_id, "user", req.message, timestamp)
        assistant_message ==
            ChatMessage(assistant_message_id, "assistant", ai_response, timestamp)
        stored_user == add_message(ensured, chat_id, user_message).sessions
        stored_both == add_message(stored_user, chat_id, assistant_message).sessions
    IN  [sessions |-> stored_both, status |-> 200,
         body |-> [response |-> ai_response,
                   messageId |-> assistant_message_id,
                   chatId |-> chat_id,
                   userId |-> user_id,
                   timestamp |-> timestamp,
                   sources |-> sources_of(get_documents(docs, chat_id))],
         chat_id |-> chat_id,
         history_for_model |-> <<bounded_history(conversation_history)>>,
         generation |-> [invoked |-> generated.invoked, raised |-> generated.raised,
                         error |-> generated.error]]

---------------------------------------------------------------------------
(* src/api/chats.py : get_chat_history, list_chats, delete_chat;           *)
(* src/api/documents.py : get_documents.                                   *)

get_chat_history_endpoint(sessions, chatId) ==
    IF Strip(chatId) = ""
    THEN [sessions |-> sessions, status |-> 400,
          body |-> [detail |-> "chatId cannot be empty"]]
    ELSE LET read == get_chat_history(sessions, chatId)
         IN  [sessions |-> read.sessions, status |-> 200,
              body |-> [messages |-> read.ret]]

list_chats(sessions) ==
    [status |-> 200, body |-> [chats |-> get_chat_sessions_with_metadata(sessions)]]

delete_chat(sessions, chatId) ==
    IF Strip(chatId) = ""
    THEN [sessions |-> sessions, status |-> 400,
          body |-> [detail |-> "chatId cannot be empty"]]
    ELSE LET deleted == delete_chat_session(sessions, chatId)
         IN  IF deleted.ret
             THEN [sessions |-> deleted.sessions, status |-> 200,
                   body |-> [success |-> TRUE,
                             message |-> "Chat session " \o chatId
                                         \o " has been successfully deleted"]]
             ELSE [sessions |-> deleted.sessions, status |-> 404,
                   body |-> [detail |-> "Chat session " \o chatId \o " not found"]]

get_documents_endpoint(docs, chatId) ==
    IF Len(Strip(chatId)) = 0
    THEN [status |-> 400, body |-> [detail |-> "chatId cannot be empty"]]
    ELSE [status |-> 200, body |-> [docs |-> get_documents(docs, chatId)]]

---------------------------------------------------------------------------
(* Sampled inputs.                                                         *)

\* chatId of a chat request: absent, blank, the placeholder, a caller's own id,
\* and a caller's id of the generated form
ChatIdArgs == {None, "  ", "string", "c1", "chat-3f2a9c1e"}
UserIdArgs == {None, "u1"}
BlankMessages == {"", " \t"}
PathIds == {"c1", "chat-3f2a9c1e", " "}

\* What qa_chain.invoke may do: return a dict holding "result", return some other
\* value, or raise.  value is the result, the value's str(), the exception's str().
Answered == [kind |-> "dict", value |-> "It is X."]
Failed == [kind |-> "raise", value |-> "connection reset"]

\* One value of uuid.uuid4().hex[:8], for the draws a run does not vary.
OneHex == CHOOSE h \in Hex8Draws : TRUE

RECURSIVE StoreSize(_)
StoreSize(sessions) ==
    IF sessions = <<>> THEN 0
    ELSE Len(Head(sessions)[2]) + StoreSize(Tail(sessions))

---------------------------------------------------------------------------
(* State machine.                                                          *)

\* The state after start-up, the data directory being one of data_paths and
\* uuid4 having returned one of draws.
InitWith(data_paths, draws) ==
    /\ chat_sessions = <<>>
    /\ documents \in {_initialize_documents(data_path, d) :
                        data_path \in data_paths, d \in draws}
    /\ clock = <<0, 0>>
    /\ request = [op |-> "start"]
    /\ response = [status |-> 0]
    /\ history_for_model = <<>>
    /\ generation = NoGeneration
    /\ turns = <<>>

\* turns, carried over to the sessions a step leaves
TurnsOver(sessions) ==
    [k \in KeySet(sessions) |-> IF k \in DOMAIN turns THEN turns[k] ELSE <<>>]

\* The wall clock advances.
Tick ==
    /\ \E t \in Instants : InstantLess(clock, t) /\ clock' = t
    /\ UNCHANGED <<chat_sessions, documents, request, response,
                   history_for_model, generation, turns>>

\* POST /chat, served in one piece: the handler is a coroutine without an await.
ChatStep(req, np_ok, outcome, chat_hex, user_hex, user_msg_hex, assistant_msg_hex) ==
    LET r == chat(chat_sessions, documents, clock, req, np_ok, outcome,
                  chat_hex, user_hex, user_msg_hex, assistant_msg_hex)
    IN  /\ chat_sessions' = r.sessions
        /\ request' = [op |-> "POST /chat", chatId |-> req.chatId,
                       message |-> req.message, userId |-> req.userId]
        /\ response' = [status |-> r.status, body |-> r.body]
        /\ history_for_model' = r.history_for_model
        /\ generation' = r.generation
        /\ turns' = IF r.status = 200
                    THEN [TurnsOver(r.sessions) EXCEPT ![r.chat_id] =
                             Append(@, [message |-> req.message,
                                        response |-> r.body.response])]
                    ELSE turns
        /\ UNCHANGED <<documents, clock>>

\* the draws of a request: all of pool if the request draws here, else one
DrawsIf(drawn, pool) == IF drawn THEN pool ELSE {CHOOSE h \in pool : TRUE}

\* A chat request out of requests arrives; `import numpy` succeeds or not as
\* imports says, the model answers with one of outcomes and uuid4 returns values
\* of the pools.  A request
\* that appends is taken while the store holds at most room messages.
PostChat(requests, imports, outcomes, chat_pool, user_pool, msg_pool, room) ==
    \E req \in requests :
        /\ Strip(req.message) # "" => StoreSize(chat_sessions) <= room
        /\ \E np_ok \in DrawsIf(Strip(req.message) # "", imports) :
           \E outcome \in DrawsIf(np_ok /\ Strip(req.message) # "", outcomes) :
           \E chat_hex \in DrawsIf(Strip(req.message) # "" /\ not_provided(req.chatId), chat_pool) :
           \E user_hex \in DrawsIf(Strip(req.message) # "" /\ not_provided(req.userId), user_pool) :
           \E user_msg_hex \in DrawsIf(Strip(req.message) # "", msg_pool) :
           \E assistant_msg_hex \in DrawsIf(Strip(req.message) # "", msg_pool) :
               ChatStep(req, np_ok, outcome,
                        chat_hex, user_hex, user_msg_hex, assistant_msg_hex)

\* GET /chats/{chatId}/messages
GetChatMessages ==
    \E chatId \in PathIds :
        LET r == get_chat_history_endpoint(chat_sessions, chatId)
        IN  /\ chat_sessions' = r.sessions
            /\ request' = [op |-> "GET /chats/{chatId}/messages", chatId |-> chatId]
            /\ response' = [status |-> r.status, body |-> r.body]
            /\ turns' = TurnsOver(r.sessions)
            /\ history_for_model' = <<>> /\ generation' = NoGeneration
            /\ UNCHANGED <<documents, clock>>

\* GET /chats
GetChats ==
    /\ request' = [op |-> "GET /chats"]
    /\ response' = list_chats(chat_sessions)
    /\ history_for_model' = <<>> /\ generation' = NoGeneration
    /\ UNCHANGED <<chat_sessions, documents, clock, turns>>

\* DELETE /chats/{chatId}
DeleteChat ==
    \E chatId \in PathIds :
        LET r == delete_chat(chat_sessions, chatId)
        IN  /\ chat_sessions' = r.sessions
            /\ request' = [op |-> "DELETE /chats/{chatId}", chatId |-> chatId]
            /\ response' = [status |-> r.status, body |-> r.body]
            /\ turns' = TurnsOver(r.sessions)
            /\ history_for_model' = <<>> /\ generation' = NoGeneration
            /\ UNCHANGED <<documents, clock>>

\* GET /docs?chatId=
GetDocs ==
    \E chatId \in PathIds :
        /\ request' = [op |-> "GET /docs", chatId |-> chatId]
        /\ response' = get_documents_endpoint(documents, chatId)
        /\ history_for_model' = <<>> /\ generation' = NoGeneration
        /\ UNCHANGED <<chat_sessions, documents, clock, turns>>

---------------------------------------------------------------------------
(* The service as deployed: the store is reached through the HTTP          *)
(* endpoints only.  Requests vary in the form of their chatId and in what  *)
(* uuid4 returns; the clock stands still.  The data directory held its     *)
(* four documents at start-up.                                             *)

Init == InitWith({d \in DataDirectories : d.exists}, {DistinctDraws})

Requests ==
    [chatId : ChatIdArgs, message : BlankMessages \cup {"hi"}, userId : {None}]

Chat == PostChat(Requests, BOOLEAN, {Answered, Failed}, Hex8Draws, {OneHex}, Hex8Draws,
                 MaxStoreMessages - 2)

Next == Chat \/ GetChatMessages \/ GetChats \/ DeleteChat \/ GetDocs

Spec == Init /\ [][Next]_vars

---------------------------------------------------------------------------
(* One conversation grown long: the requests name one session and vary in  *)
(* their message and in what the model does.                               *)

DeepRequests == [chatId : {"c1"}, message : {"", "hi", "yo?"}, userId : {"u1"}]

ChatDeep == PostChat(DeepRequests, {TRUE}, {Answered, Failed}, {OneHex}, {OneHex}, {OneHex},
                     MaxDeepHistory)

NextDeep == ChatDeep \/ GetChatMessages \/ DeleteChat

SpecDeep == Init /\ [][NextDeep]_vars

---------------------------------------------------------------------------
(* Sessions over time: the clock advances between the requests.            *)

TimedRequests == [chatId : {"c1", "chat-3f2a9c1e"}, message : {"hi"}, userId : {"u1"}]

ChatTimed == PostChat(TimedRequests, {TRUE}, {Answered}, {OneHex}, {OneHex}, {OneHex},
                      MaxStoreMessages - 2)

NextTimed == ChatTimed \/ Tick \/ GetChats \/ DeleteChat

SpecTimed == Init /\ [][NextTimed]_vars

---------------------------------------------------------------------------
(* The store driven through its own methods, as any caller of              *)
(* services.database.db may, next to the chat and delete endpoints.        *)

StoreIds == {"c1", "chat-3f2a9c1e"}

StoreMessages ==
    { ChatMessage("msg-1", "user", "hi", "2026-11-03T07:15:00Z"),
      ChatMessage("msg-2", "assistant", "It is X.", "2026-11-03T07:15:00.500000Z"),
      ChatMessage("msg-1", "user", "", "") }

\* a call of a store method: the store after it and what it returned
StoreCall(op, chat_id, r) ==
    /\ chat_sessions' = r.sessions
    /\ request' = [op |-> op, chat_id |-> chat_id]
    /\ response' = [ret |-> r.ret]
    /\ turns' = TurnsOver(r.sessions)
    /\ history_for_model' = <<>> /\ generation' = NoGeneration
    /\ UNCHANGED <<documents, clock>>

CallCreateChatSession ==
    \E chat_id \in StoreIds :
        StoreCall("create_chat_session", chat_id,
                  create_chat_session(chat_sessions, chat_id))

CallAddMessage ==
    \E chat_id \in StoreIds, message \in StoreMessages :
        /\ StoreSize(chat_sessions) < MaxStoreMessages
        /\ chat_sessions' = add_message(chat_sessions, chat_id, message).sessions
        /\ request' = [op |-> "add_message", chat_id |-> chat_id, message |-> message]
        /\ response' = [ret |-> add_message(chat_sessions, chat_id, message).ret]
        /\ turns' = TurnsOver(chat_sessions')
        /\ history_for_model' = <<>> /\ generation' = NoGeneration
        /\ UNCHANGED <<documents, clock>>

CallGetChatHistory ==
    \E chat_id \in StoreIds :
        StoreCall("get_chat_history", chat_id, get_chat_history(chat_sessions, chat_id))

CallDeleteChatSession ==
    \E chat_id \in StoreIds :
        StoreCall("delete_chat_session", chat_id,
                  delete_chat_session(chat_sessions, chat_id))

CallChatSessionExists ==
    \E chat_id \in StoreIds :
        StoreCall("chat_session_exists", chat_id,
                  chat_session_exists(chat_sessions, chat_id))

CallGetChatSessionsWithMetadata ==
    StoreCall("get_chat_sessions_with_metadata", None,
              [sessions |-> chat_sessions,
               ret |-> get_chat_sessions_with_metadata(chat_sessions)])

CallGetDocuments ==
    \E chat_id \in StoreIds :
        StoreCall("get_documents", chat_id,
                  [sessions |-> chat_sessions, ret |-> get_documents(documents, chat_id)])

StoreRequests == [chatId : StoreIds, message : {"hi"}, userId : {"u1"}]

ChatStore == PostChat(StoreRequests, {TRUE}, {Answered}, {OneHex}, {OneHex}, {OneHex},
                      MaxStoreMessages - 2)

NextStore ==
    \/ CallCreateChatSession \/ CallAddMessage \/ CallGetChatHistory
    \/ CallDeleteChatSession \/ CallChatSessionExists
    \/ CallGetChatSessionsWithMetadata \/ CallGetDocuments
    \/ ChatStore \/ DeleteChat \/ GetChatMessages

SpecStore == Init /\ [][NextStore]_vars

---------------------------------------------------------------------------
(* One exchange looked at closely: the requests vary in the form of their  *)
(* chatId, uuid4 in what it returns for the session and for the two        *)
(* messages, and the clock advances between the requests.                  *)

TurnRequests ==
    [chatId : {None, "string", "c1", " c1 "}, message : {"hi"}, userId : {"u1"}]

ChatTurn == PostChat(TurnRequests, {TRUE}, {Answered}, Hex8Draws, {OneHex}, Hex8Draws,
                     MaxStoreMessages - 2)

NextTurn == ChatTurn \/ Tick \/ GetChatMessages \/ DeleteChat

SpecTurn == Init /\ [][NextTurn]_vars

---------------------------------------------------------------------------
(* Generation failing: `import numpy` fails, or qa_chain.invoke raises     *)
(* with one of several texts.                                              *)

\* str() of the exceptions qa_chain.invoke raises
FailureTexts ==
    { "Numpy is not available", "CUDA out of memory", "no GPU found",
      "Numpy is not available on this GPU", "connection reset" }

Failures == {[kind |-> "raise", value |-> text] : text \in FailureTexts}

FailRequests == [chatId : {"c1"}, message : {"hi", "yo?"}, userId : {"u1"}]

ChatFail == PostChat(FailRequests, BOOLEAN, Failures \cup {Answered}, {OneHex}, {OneHex},
                     {OneHex}, MaxStoreMessages - 2)

NextFail == ChatFail \/ GetChatMessages \/ DeleteChat

SpecFail == Init /\ [][NextFail]_vars

---------------------------------------------------------------------------
(* The document registry: start-up found the data directory missing, or    *)
(* holding its files, with uuid4 returning distinct values or two that     *)
(* agree on their first 8 characters; then requests of every endpoint.     *)

InitDocs == InitWith(DataDirectories, StartupDraws)

DocsRequests == [chatId : {None, "c1"}, message : {"hi"}, userId : {"u1"}]

ChatDocs == PostChat(DocsRequests, {TRUE}, {Answered}, {OneHex}, {OneHex}, {OneHex},
                     MaxStoreMessages - 2)

NextDocs ==
    \/ ChatDocs \/ GetChatMessages \/ GetChats \/ DeleteChat \/ GetDocs
    \/ CallGetDocuments

SpecDocs == InitDocs /\ [][NextDocs]_vars

---------------------------------------------------------------------------
(* Properties.                                                             *)

\* empty or whitespace-only
IsBlank(s) == \A i \in 1..Len(s) : CharAt(s, i) \in Whitespace

\* a chatId that names no session: absent, blank, or the placeholder
NoChatId(x) == x = None \/ IsBlank(x) \/ x = "string"

\* the messages of session id, none if there is no such session
History(sessions, id) == DictGet(sessions, id, <<>>)

IsPrefixOf(a, b) == Len(a) <= Len(b) /\ SubSeq(b, 1, Len(a)) = a

\* C1: a POST /chat whose message is empty or whitespace-only is answered 400
\* and leaves the store as it was, whatever chatId it carries.
C1_BlankMessageRejected ==
    [][ (request'.op = "POST /chat" /\ IsBlank(request'.message))
        => (response'.status = 400 /\ chat_sessions' = chat_sessions) ]_vars

\* C1 witness: a whitespace-only message was rejected although it named a valid
\* chatId unknown to a store that holds another session.
C1_Witness ==
    /\ request.op = "POST /chat"
    /\ request.message = " \t"
    /\ request.chatId = "c1"
    /\ response.status = 400
    /\ ~DictHas(chat_sessions, "c1")
    /\ chat_sessions # <<>>

\* C2: a POST /chat with a non-empty message and no chatId adds exactly one
\* session id, one the store did not hold, and the next listing shows it.
C2_OneNewSession ==
    [][ (request'.op = "POST /chat" /\ ~IsBlank(request'.message)
            /\ NoChatId(request'.chatId))
        => \E id \in KeySet(chat_sessions') \ KeySet(chat_sessions) :
              /\ KeySet(chat_sessions') = KeySet(chat_sessions) \cup {id}
              /\ LET chats == list_chats(chat_sessions').body.chats
                 IN  \E i \in 1..Len(chats) : chats[i].chatId = id ]_vars

\* the role and content of each message, as the model is meant to get them
RolesAndContents(messages) ==
    [i \in 1..Len(messages) |->
        [role |-> messages[i].role, content |-> messages[i].content]]

\* what a generation call was given besides the query
ContextGiven(args) == IF DOMAIN args = {"query"} THEN <<>> ELSE args.chat_history

\* the messages the session of the last chat request held when it arrived
PriorMessages ==
    LET all == History(chat_sessions, response.body.chatId)
    IN  SubSeq(all, 1, Len(all) - 2)

\* C3: the context given to the generation call is the 10 most recent of the
\* N messages the session held, in their order (all N when N <= 10).
C3_WindowGiven ==
    (request.op = "POST /chat" /\ response.status = 200 /\ generation.invoked # <<>>)
    => ContextGiven(generation.invoked[1])
         = RolesAndContents(LastN(PriorMessages, 10))

\* What does hold of the window: the handler computes it, as history_for_model.
C3_WindowComputed ==
    (request.op = "POST /chat" /\ response.status = 200)
    => history_for_model = <<RolesAndContents(LastN(PriorMessages, 10))>>

\* C4: delete_chat_session on an id the store lacks returns False and changes
\* nothing (DELETE /chats/{chatId} answers 404); on an id it holds it returns
\* True, and then chat_session_exists is False and get_chat_history is empty.
C4_DeleteSession ==
    [][ /\ request'.op = "delete_chat_session" =>
             IF request'.chat_id \notin KeySet(chat_sessions)
             THEN response'.ret = FALSE /\ chat_sessions' = chat_sessions
             ELSE /\ response'.ret = TRUE
                  /\ chat_session_exists(chat_sessions', request'.chat_id).ret = FALSE
                  /\ get_chat_history(chat_sessions', request'.chat_id).ret = <<>>
        /\ (request'.op = "DELETE /chats/{chatId}" /\ ~IsBlank(request'.chatId)) =>
             IF request'.chatId \notin KeySet(chat_sessions)
             THEN response'.status = 404 /\ chat_sessions' = chat_sessions
             ELSE /\ response'.status = 200
                  /\ chat_session_exists(chat_sessions', request'.chatId).ret = FALSE
                  /\ get_chat_history(chat_sessions', request'.chatId).ret = <<>> ]_vars

\* C4 witness: a session was deleted and is gone, next to another one that
\* still holds its messages.
C4_Witness ==
    /\ request.op = "delete_chat_session"
    /\ response.ret = TRUE
    /\ ~DictHas(chat_sessions, request.chat_id)
    /\ \E id \in KeySet(chat_sessions) : Len(History(chat_sessions, id)) >= 2

\* the instant a timestamp was printed from
InstantOf(timestamp) == CHOOSE t \in Instants : current_timestamp(t) = timestamp

\* C5: the listing holds no session without messages, exactly one entry for each
\* session with messages, its lastActivity the timestamp of the session's last
\* message, and no entry's last activity is earlier than that of the entry after it.
C5_ListingMostRecentFirst ==
    LET chats == get_chat_sessions_with_metadata(chat_sessions)
    IN  /\ \A i \in 1..Len(chats) : History(chat_sessions, chats[i].chatId) # <<>>
        /\ \A id \in KeySet(chat_sessions) :
              History(chat_sessions, id) # <<>>
              => Cardinality({i \in 1..Len(chats) : chats[i].chatId = id}) = 1
        /\ \A i \in 1..Len(chats) :
              LET messages == History(chat_sessions, chats[i].chatId)
              IN  chats[i].lastActivity = messages[Len(messages)].timestamp
        /\ \A i \in 1..(Len(chats) - 1) :
              ~InstantLess(InstantOf(chats[i].lastActivity),
                           InstantOf(chats[i + 1].lastActivity))

\* C6: create_chat_session on an id the store holds returns False and leaves
\* every session as it was; on an absent id it returns True and adds the id
\* with an empty message list.
C6_CreateIdempotent ==
    [][ request'.op = "create_chat_session" =>
          IF request'.chat_id \in KeySet(chat_sessions)
          THEN response'.ret = FALSE /\ chat_sessions' = chat_sessions
          ELSE /\ response'.ret = TRUE
               /\ KeySet(chat_sessions') = KeySet(chat_sessions) \cup {request'.chat_id}
               /\ History(chat_sessions', request'.chat_id) = <<>>
               /\ \A id \in KeySet(chat_sessions) :
                     History(chat_sessions', id) = History(chat_sessions, id) ]_vars

\* C6 witness: creation was refused for a session that holds messages.
C6_Witness ==
    /\ request.op = "create_chat_session"
    /\ response.ret = FALSE
    /\ Len(History(chat_sessions, request.chat_id)) >= 2

\* C7: after k successful chat requests to a session since its creation, GET
\* /chats/{chatId}/messages returns 2k messages: for each request, in the order
\* served, its user message and then its assistant message.
C7_TwoMessagesPerTurn ==
    (request.op = "GET /chats/{chatId}/messages" /\ response.status = 200)
    => LET served == IF request.chatId \in DOMAIN turns
                     THEN turns[request.chatId] ELSE <<>>
           messages == response.body.messages
       IN  /\ Len(messages) = 2 * Len(served)
           /\ \A i \in 1..Len(served) :
                 /\ messages[2 * i - 1].role = "user"
                 /\ messages[2 * i - 1].content = served[i].message
                 /\ messages[2 * i].role = "assistant"
                 /\ messages[2 * i].content = served[i].response

\* C7 witness: the history of a session served three times, with different
\* messages and different replies, was read.
C7_Witness ==
    /\ request.op = "GET /chats/{chatId}/messages"
    /\ request.chatId \in DOMAIN turns
    /\ Len(turns[request.chatId]) = 3
    /\ turns[request.chatId][1].message # turns[request.chatId][2].message
    /\ turns[request.chatId][2].response # turns[request.chatId][3].response
    /\ Len(response.body.messages) = 6

\* C8: when generation raises on a non-empty message the request is answered
\* 200 with one of the canned replies, and the user message and an assistant
\* message carrying that reply are appended to the session.
C8_DegradedAnswer ==
    [][ (request'.op = "POST /chat" /\ ~IsBlank(request'.message) /\ generation'.raised)
        => /\ response'.status = 200
           /\ response'.body.response \in CannedReplies
           /\ LET id == response'.body.chatId
                  before == History(chat_sessions, id)
                  after == History(chat_sessions', id)
              IN  /\ Len(after) = Len(before) + 2
                  /\ IsPrefixOf(before, after)
                  /\ after[Len(before) + 1].role = "user"
                  /\ after[Len(before) + 1].content = request'.message
                  /\ after[Len(before) + 2].role = "assistant"
                  /\ after[Len(before) + 2].content = response'.body.response ]_vars

\* C8 witness: qa_chain.invoke was called and raised, and the request was
\* answered 200 on a session that held messages before.
C8_Witness ==
    /\ request.op = "POST /chat"
    /\ generation.invoked # <<>>
    /\ generation.raised
    /\ response.status = 200
    /\ Len(History(chat_sessions, response.body.chatId)) = 4

\* C9: over every step, the message list of a session present before and after
\* is extended, never shortened or rewritten.
C9_AppendOnly ==
    [][ \A id \in KeySet(chat_sessions) \cap KeySet(chat_sessions') :
            IsPrefixOf(History(chat_sessions, id), History(chat_sessions', id)) ]_vars

\* C9 witness: add_message extended a session that held messages.
C9_Witness ==
    /\ request.op = "add_message"
    /\ Len(History(chat_sessions, request.chat_id)) >= 3

\* every message of the store, session by session
RECURSIVE AllMessages(_)
AllMessages(sessions) ==
    IF sessions = <<>> THEN <<>>
    ELSE Head(sessions)[2] \o AllMessages(Tail(sessions))

\* C10: no two messages of the store carry the same id, and a generated
\* session id is never the id of a session the store already holds.
C10_UniqueIds ==
    [][ /\ LET all == AllMessages(chat_sessions')
           IN  \A i, j \in 1..Len(all) : i # j => all[i].id # all[j].id
        /\ (request'.op = "POST /chat" /\ ~IsBlank(request'.message)
               /\ NoChatId(request'.chatId))
           => response'.body.chatId \notin KeySet(chat_sessions) ]_vars

HexDigits == {CharAt("0123456789abcdef", i) : i \in 1..16}

\* "chat-" followed by 8 hexadecimal characters
IsGeneratedChatId(id) ==
    /\ Len(id) = 13
    /\ SubSeq(id, 1, 5) = "chat-"
    /\ \A i \in 6..13 : CharAt(id, i) \in HexDigits

\* the last two messages of session id are the exchange of the request req
ExchangeStoredIn(sessions, id, req, body) ==
    LET messages == History(sessions, id)
    IN  /\ Len(messages) >= 2
        /\ messages[Len(messages) - 1].role = "user"
        /\ messages[Len(messages) - 1].content = req.message
        /\ messages[Len(messages)].id = body.messageId

C12_AddMessage ==
    [][ request'.op = "add_message" =>
          LET id == request'.chat_id
              after == History(chat_sessions', id)
          IN  /\ response'.ret = TRUE
              /\ id \in KeySet(chat_sessions')
              /\ after # <<>> /\ after[Len(after)] = request'.message
              /\ IF id \in KeySet(chat_sessions)
                 THEN after = Append(History(chat_sessions, id), request'.message)
                 ELSE after = <<request'.message>>
              /\ KeySet(chat_sessions') = KeySet(chat_sessions) \cup {id} ]_vars

\* C12 witness: add_message created a session for its message, in a store
\* that holds another session with messages.
C12_Witness ==
    /\ request.op = "add_message"
    /\ response.ret = TRUE
    /\ History(chat_sessions, request.chat_id) = <<request.message>>
    /\ \E id \in KeySet(chat_sessions) \ {request.chat_id} :
          Len(History(chat_sessions, id)) >= 2

\* C13: chat_session_exists, get_chat_history and GET /chats/{chatId}/messages
\* leave the store and the listing as they were; get_chat_history of an unknown
\* id returns the empty list and the id is still unknown afterwards.
C13_ReadsOnly ==
    [][ /\ request'.op \in {"chat_session_exists", "get_chat_history",
                            "GET /chats/{chatId}/messages"}
           => /\ chat_sessions' = chat_sessions
              /\ get_chat_sessions_with_metadata(chat_sessions')
                   = get_chat_sessions_with_metadata(chat_sessions)
        /\ (request'.op = "get_chat_history"
               /\ request'.chat_id \notin KeySet(chat_sessions))
           => /\ response'.ret = <<>>
              /\ request'.chat_id \notin KeySet(chat_sessions')
        /\ (request'.op = "get_chat_history"
               /\ request'.chat_id \in KeySet(chat_sessions))
           => response'.ret = History(chat_sessions, request'.chat_id)
        /\ (request'.op = "GET /chats/{chatId}/messages"
               /\ ~IsBlank(request'.chatId)
               /\ request'.chatId \notin KeySet(chat_sessions))
           => /\ response'.status = 200
              /\ response'.body.messages = <<>>
              /\ request'.chatId \notin KeySet(chat_sessions') ]_vars

\* C13 witness: the history of an unknown id was read from a store that holds
\* a session with messages, and the id is still unknown.
C13_Witness ==
    /\ request.op = "get_chat_history"
    /\ response.ret = <<>>
    /\ request.chat_id \notin KeySet(chat_sessions)
    /\ \E id \in KeySet(chat_sessions) : Len(History(chat_sessions, id)) >= 2

\* C14: a served chat request appends its two messages to the session of the
\* resolved chatId and to no other: every other session keeps its list and no
\* other id comes or goes; deleting session A removes A and leaves every other
\* session as it was.
C14_OneSessionTouched ==
    [][ /\ (request'.op = "POST /chat" /\ ~IsBlank(request'.message))
           => LET id == response'.body.chatId
              IN  /\ KeySet(chat_sessions') = KeySet(chat_sessions) \cup {id}
                  /\ Len(History(chat_sessions', id))
                       = Len(History(chat_sessions, id)) + 2
                  /\ \A other \in KeySet(chat_sessions) \ {id} :
                        History(chat_sessions', other) = History(chat_sessions, other)
        /\ (request'.op = "delete_chat_session"
               /\ request'.chat_id \in KeySet(chat_sessions))
           => /\ KeySet(chat_sessions') = KeySet(chat_sessions) \ {request'.chat_id}
              /\ \A other \in KeySet(chat_sessions') :
                    History(chat_sessions', other) = History(chat_sessions, other)
        /\ (request'.op = "DELETE /chats/{chatId}"
               /\ request'.chatId \in KeySet(chat_sessions))
           => /\ KeySet(chat_sessions') = KeySet(chat_sessions) \ {request'.chatId}
              /\ \A other \in KeySet(chat_sessions') :
                    History(chat_sessions', other) = History(chat_sessions, other) ]_vars

\* C14 witness: a chat request was served on one session while another session
\* holds messages of its own.
C14_Witness ==
    /\ request.op = "POST /chat"
    /\ response.status = 200
    /\ Len(History(chat_sessions, response.body.chatId)) = 2
    /\ \E other \in KeySet(chat_sessions) \ {response.body.chatId} :
          Len(History(chat_sessions, other)) = 2

\* C15: after a served chat request the session ends with the user message
\* and then the assistant message, both carrying one timestamp; the response's
\* messageId is the assistant message's id, its timestamp that shared timestamp
\* and its text the assistant message's content.
C15_PersistedExchange ==
    (request.op = "POST /chat" /\ response.status = 200)
    => LET messages == History(chat_sessions, response.body.chatId)
           n == Len(messages)
       IN  /\ n >= 2
           /\ messages[n - 1].role = "user"
           /\ messages[n - 1].content = request.message
           /\ messages[n].role = "assistant"
           /\ messages[n - 1].timestamp = messages[n].timestamp
           /\ response.body.timestamp = messages[n].timestamp
           /\ response.body.messageId = messages[n].id
           /\ response.body.response = messages[n].content

\* C15 witness: the second exchange of a session was stored at a later instant
\* than the first, its two messages under different ids.
C15_Witness ==
    /\ request.op = "POST /chat"
    /\ response.status = 200
    /\ LET messages == History(chat_sessions, response.body.chatId)
       IN  /\ Len(messages) = 4
           /\ messages[3].id # messages[4].id
           /\ response.body.messageId = messages[4].id
           /\ messages[2].timestamp # messages[3].timestamp
           /\ response.body.timestamp = current_timestamp(clock)

\* C16: when generation fails the reply is the NumPy message if the failure is
\* the numeric library being unavailable (the handler's own import check failing,
\* or an error saying so), else the GPU message if the error text mentions CUDA
\* or GPU, else the apology.
C16_ReplyFromFailure ==
    (request.op = "POST /chat" /\ response.status = 200 /\ generation.raised)
    => response.body.response =
         IF generation.invoked = <<>>
               \/ Contains(generation.error, "Numpy is not available")
         THEN NUMPY_REPLY
         ELSE IF Contains(generation.error, "CUDA") \/ Contains(generation.error, "GPU")
         THEN GPU_REPLY
         ELSE APOLOGY_REPLY

\* What does hold of the choice: it follows the error text alone, and the text
\* of the handler's own check, "NumPy is not properly installed", does not hold
\* "Numpy is not available".
C16_ReplyFromText ==
    (request.op = "POST /chat" /\ response.status = 200 /\ generation.raised)
    => /\ response.body.response \in CannedReplies
       /\ response.body.response =
            IF Contains(generation.error, "Numpy is not available") THEN NUMPY_REPLY
            ELSE IF Contains(generation.error, "CUDA")
                       \/ Contains(generation.error, "GPU")
            THEN GPU_REPLY
            ELSE APOLOGY_REPLY
       /\ generation.invoked = <<>> => response.body.response = APOLOGY_REPLY

\* C17: no request changes the document registry; get_documents and GET /docs
\* return the whole registry whatever session id they are given and leave the
\* sessions as they were; the sources of a chat response are the first 3
\* documents of the registry, or null when the registry is empty.
C17_RegistryFixed ==
    [][ /\ documents' = documents
        /\ (request'.op = "get_documents")
           => /\ response'.ret = [i \in 1..Len(documents) |-> documents[i][2]]
              /\ chat_sessions' = chat_sessions
        /\ (request'.op = "GET /docs" /\ ~IsBlank(request'.chatId))
           => /\ response'.status = 200
              /\ response'.body.docs = [i \in 1..Len(documents) |-> documents[i][2]]
              /\ chat_sessions' = chat_sessions
        /\ (request'.op = "POST /chat" /\ response'.status = 200)
           => LET sources == response'.body.sources
              IN  IF Len(documents) = 0
                  THEN sources.none
                  ELSE /\ ~sources.none
                       /\ Len(sources.list) = Min(3, Len(documents))
                       /\ \A i \in 1..Len(sources.list) :
                             /\ sources.list[i].docId = documents[i][2].id
                             /\ sources.list[i].docName = documents[i][2].name
                             /\ sources.list[i].relevantSection = None ]_vars

\* C17 witness: a chat request was answered with three sources out of a
\* registry of four documents.
C17_Witness ==
    /\ request.op = "POST /chat"
    /\ response.status = 200
    /\ Len(documents) = 4
    /\ ~response.body.sources.none
    /\ Len(response.body.sources.list) = 3

\* a chat request answered with null sources, the registry being empty
C17_WitnessEmpty ==
    /\ request.op = "POST /chat"
    /\ response.status = 200
    /\ documents = <<>>
    /\ response.body.sources.none

\* C18: with the requests of the HTTP endpoints served in any order, every
\* session of the store holds, between two requests, an even number of messages
\* and at least two, alternating user, assistant: the pairs are the exchanges
\* served on the session, each user message directly followed by its reply.
C18_WholeExchanges ==
    \A id \in KeySet(chat_sessions) :
        LET messages == History(chat_sessions, id)
        IN  /\ Len(messages) >= 2
            /\ Len(messages) % 2 = 0
            /\ \A i \in 1..Len(messages) :
                  messages[i].role = IF i % 2 = 1 THEN "user" ELSE "assistant"
            /\ id \in DOMAIN turns
            /\ Len(messages) = 2 * Len(turns[id])
            /\ \A k \in 1..Len(turns[id]) :
                  /\ messages[2 * k - 1].content = turns[id][k].message
                  /\ messages[2 * k].content = turns[id][k].response

\* C18 witness: two sessions hold an exchange each, one answered by the model
\* and one by a canned reply, after a delete was answered 404.
C18_Witness ==
    /\ request.op = "DELETE /chats/{chatId}"
    /\ response.status = 404
    /\ Cardinality(KeySet(chat_sessions)) = 2
    /\ \E a, b \in KeySet(chat_sessions) :
          /\ History(chat_sessions, a)[2].content = "It is X."
          /\ History(chat_sessions, b)[2].content \in CannedReplies

===========================================================================
